---------------------------- MODULE Spec2Model ----------------------------
(***************************************************************************)
(* NFC music player: the poll loop of NFCMusicController (main.py), the   *)
(* MusicPlayer with its background _play_loop thread (music_player.py),   *)
(* the NFCReader (nfc_reader.py) and the ActivityLogger (logger.py).      *)
(*                                                                         *)
(* The main thread and the playback threads share the player's fields     *)
(* without any lock, so every read or write of a shared field is a step   *)
(* of its own and the steps of the threads interleave freely.             *)
(***************************************************************************)
EXTENDS Integers, Sequences, FiniteSets, TLC

\* ------------------------------------------------------------------ bounds

\* Thread objects that can be alive at once: the session's own run-loop plus
\* the run-loops left behind by joins that timed out.
MaxThreads == 2

\* Events the activity log holds before polling ends.
MaxLog == 3

\* ------------------------------------------------------------ configuration

\* Python's None, for a tag id or an album name.
None == "None"

\* self.playback_thread = None
NoThread == 0

Threads == 1..MaxThreads

\* config['nfc_mappings']: the old format (a bare album string), the new
\* format (a dict with album and shuffle) and a dict without the shuffle key.
Mappings ==
    [t \in {"111", "222", "333", "444"} |->
        CASE t = "111" -> [kind |-> "str", album |-> "Jazz", shuffle |-> FALSE]
          [] t = "222" -> [kind |-> "dict", album |-> "Rock", shuffle |-> TRUE]
          [] t = "333" -> [kind |-> "dict_no_shuffle", album |-> "Empty", shuffle |-> FALSE]
          [] t = "444" -> [kind |-> "dict", album |-> "Gone", shuffle |-> FALSE]]

\* The tags that can be held to the reader; "999" is in no mapping.
Tags == {"111", "222", "333", "444", "999"}

\* What SimpleMFRC522.read_no_block() can do: return a tag id, return no id,
\* or raise (an AUTH ERROR or another hardware error).
Readings == Tags \cup {None, "AUTH ERROR", "IO ERROR"}

\* The music library under usb_mount_path: the directories that exist and the
\* *.mp3 files glob finds in each, in no order.  A file is named by the rank of
\* its path in lexicographic order.  "Gone" is no directory.
Library ==
    [a \in {"Jazz", "Rock", "Empty"} |->
        CASE a = "Jazz" -> {1, 2, 3}
          [] a = "Rock" -> {4, 5}
          [] a = "Empty" -> {}]

\* ------------------------------------------------------------------- state

VARIABLES
    \* MusicPlayer
    current_playlist, current_index, is_playing, is_shuffled, playback_thread,
    \* pygame.mixer.music: the track loaded and whether it is playing
    mixer_track, mixer_busy,
    \* the _play_loop threads: position, and the locals current_song and the
    \* value computed for current_index but not yet stored
    tpc, current_song, next_index,
    \* NFCMusicController
    current_nfc_id, ctl_is_playing,
    \* ActivityLogger: the lines appended to the log file
    log,
    \* the main thread: position, the callers' locals, and stop()'s caller
    pc, nfc_id, album, shuffle, mp3_files, caller,
    \* the main thread is in the KeyboardInterrupt handler
    shutting_down,
    \* GPIO.cleanup() has run
    gpio_released,
    \* current_nfc_id and the log's length when the last tag was read, and
    \* what read_no_block() did at that read
    tick_prev, tick_log, reading

player == <<current_playlist, current_index, is_playing, is_shuffled, playback_thread>>
mixer == <<mixer_track, mixer_busy>>
threads == <<tpc, current_song, next_index>>
controller == <<current_nfc_id, ctl_is_playing, log>>
locals == <<nfc_id, album, shuffle, mp3_files, caller>>
tick == <<tick_prev, tick_log, reading>>
vars == <<player, mixer, threads, controller, pc, locals, shutting_down,
          gpio_released, tick>>

\* ------------------------------------------------------------- pure helpers

Range(s) == {s[i] : i \in 1..Len(s)}

RECURSIVE SortedSeq(_)
\* mp3_files.sort(): the files in ascending order.
SortedSeq(S) ==
    IF S = {} THEN <<>>
    ELSE LET m == CHOOSE x \in S : \A y \in S : x <= y
         IN <<m>> \o SortedSeq(S \ {m})

\* random.shuffle(mp3_files): every reordering of the list is possible.
Shuffles(s) ==
    {p \in [1..Len(s) -> Range(s)] : Range(p) = Range(s)}

\* NFCReader.read_tag: an exception, or an id that is falsy, gives None.
read_tag(r) ==
    IF r \in {"AUTH ERROR", "IO ERROR"} THEN None
    ELSE r

\* get_album_info with the isinstance(mapping, str) branch lost: a mapping in
\* the old format is not recognised.
get_album_info_no_str(id) ==
    IF id \notin DOMAIN Mappings THEN [album |-> None, shuffle |-> FALSE]
    ELSE LET mapping == Mappings[id]
         IN IF mapping.kind = "str"
            THEN [album |-> None, shuffle |-> FALSE]
            ELSE [album |-> mapping.album,
                  shuffle |-> IF mapping.kind = "dict" THEN mapping.shuffle ELSE FALSE]

\* get_album_info's two returns with mapping.get('shuffle', True) in the
\* second: a dict without the shuffle key is shuffled.
mapping_info_shuffle_by_default(mapping) ==
    IF mapping.kind = "str"
    THEN [album |-> mapping.album, shuffle |-> FALSE]
    ELSE [album |-> mapping.album,
          shuffle |-> IF mapping.kind = "dict" THEN mapping.shuffle ELSE TRUE]

\* get_album_info on a mapping that was found: an old-format string is the
\* album, without shuffle; a dict gives its album and its shuffle key, False
\* if the key is missing.
mapping_info(mapping) ==
    IF mapping.kind = "str"
    THEN [album |-> mapping.album, shuffle |-> FALSE]
    ELSE [album |-> mapping.album,
          shuffle |-> IF mapping.kind = "dict" THEN mapping.shuffle ELSE FALSE]

\* NFCMusicController.get_album_info
get_album_info(id) ==
    IF id \notin DOMAIN Mappings THEN [album |-> None, shuffle |-> FALSE]
    ELSE mapping_info(Mappings[id])

\* play_album without its second early return: an empty album is played.
play_album_fails_no_empty_check(a) == a \notin DOMAIN Library

\* play_album's two early returns: no such directory, or no *.mp3 in it.
play_album_fails(a) ==
    IF a \notin DOMAIN Library THEN TRUE
    ELSE Library[a] = {}

\* The action logged for a start with the shuffle flag ignored.
start_action_ignores_shuffle(s) == "started"

\* The action handle_new_tag logs after a successful play_album.
start_action(s) == IF s THEN "started_shuffled" ELSE "started"

\* The action logged for a stop with the shuffle flag ignored.
stop_action_ignores_shuffle(s) == "stopped"

\* The action handle_tag_removed logs.
stop_action(s) == IF s THEN "stopped_shuffled" ELSE "stopped"

\* One line of the activity log (the timestamp left out).
log_entry(id, a, action) == [tag |-> id, album |-> a, action |-> action]

is_alive(t) == tpc[t] # "dead"

AliveThreads == {t \in Threads : is_alive(t)}

\* self.playback_thread and self.playback_thread.is_alive()
thread_is_alive ==
    IF playback_thread = NoThread THEN FALSE ELSE is_alive(playback_thread)


\* The slot a new Thread object takes: any one that holds no live thread.
free_thread == CHOOSE t \in Threads : ~is_alive(t) /\ \A u \in Threads : ~is_alive(u) => t <= u

\* -------------------------------------------------------------------- Init

\* NFCMusicController.__init__ has made the NFCReader, which holds the GPIO
\* pins from then on; the fields have the values the constructors give them.
Init ==
    /\ current_playlist = <<>>
    /\ current_index = 0
    /\ is_playing = FALSE
    /\ is_shuffled = FALSE
    /\ playback_thread = NoThread
    /\ mixer_track = 0
    /\ mixer_busy = FALSE
    /\ tpc = [t \in Threads |-> "dead"]
    /\ current_song = [t \in Threads |-> 0]
    /\ next_index = [t \in Threads |-> 0]
    /\ current_nfc_id = None
    /\ ctl_is_playing = FALSE
    /\ log = <<>>
    /\ pc = "construct"
    /\ nfc_id = None
    /\ album = None
    /\ shuffle = FALSE
    /\ mp3_files = <<>>
    /\ caller = None
    /\ shutting_down = FALSE
    /\ gpio_released = FALSE
    /\ tick_prev = None
    /\ tick_log = 0
    /\ reading = None

\* ------------------------------------- NFCMusicController.__init__, the rest

\* MusicPlayer(self.config) and ActivityLogger() return, and run() is entered.
Construct ==
    /\ pc = "construct"
    /\ pc' = "poll"
    /\ UNCHANGED <<player, mixer, threads, controller, locals, shutting_down,
                   gpio_released, tick>>

\* MusicPlayer(self.config) raises (pygame.mixer.init() finds no audio device,
\* or the configuration has no audio_settings): nothing catches it and the
\* process ends with the traceback.
ConstructFault ==
    /\ pc = "construct"
    /\ pc' = "crashed"
    /\ UNCHANGED <<player, mixer, threads, controller, locals, shutting_down,
                   gpio_released, tick>>

\* --------------------------------------------- NFCMusicController.run: a tick

\* nfc_id = self.nfc_reader.read_tag(), at the top of the poll loop.  Polling
\* ends when the log is full, and it pauses while MaxThreads threads are alive
\* (the tick could leave one more behind).
ReadTag ==
    /\ pc = "poll"
    /\ Len(log) < MaxLog
    /\ Cardinality(AliveThreads) < MaxThreads
    /\ \E r \in Readings :
          /\ reading' = r
          /\ nfc_id' = read_tag(r)
    /\ tick_prev' = current_nfc_id
    /\ tick_log' = Len(log)
    /\ pc' = "dispatch"
    /\ UNCHANGED <<player, mixer, threads, controller, album, shuffle,
                   mp3_files, caller, shutting_down, gpio_released>>

\* The test with its comparison lost: every tag read counts as a new tag.
new_tag_detected_no_compare == nfc_id # None

\* if nfc_id and nfc_id != self.current_nfc_id
new_tag_detected == nfc_id # None /\ nfc_id # current_nfc_id

\* elif not nfc_id and self.current_nfc_id
tag_removed == nfc_id = None /\ current_nfc_id # None

\* Neither branch of run's if/elif is taken: the same tag, or still no tag.
RunNoChange ==
    /\ pc = "dispatch"
    /\ ~new_tag_detected
    /\ ~tag_removed
    /\ pc' = "poll"
    /\ UNCHANGED <<player, mixer, threads, controller, locals, shutting_down,
                   gpio_released, tick>>

\* handle_new_tag's unknown branch also recording the tag as the observed one.
HandleNewTagUnknownSetsTag ==
    /\ pc = "dispatch"
    /\ new_tag_detected
    /\ get_album_info(nfc_id).album = None
    /\ log' = Append(log, log_entry(nfc_id, "Unknown", "unknown_tag"))
    /\ current_nfc_id' = nfc_id
    /\ pc' = "poll"
    /\ UNCHANGED <<player, mixer, threads, ctl_is_playing, locals,
                   shutting_down, gpio_released, tick>>

\* handle_new_tag, the tag is in no mapping: log unknown_tag.
HandleNewTagUnknown ==
    /\ pc = "dispatch"
    /\ new_tag_detected
    /\ get_album_info(nfc_id).album = None
    /\ log' = Append(log, log_entry(nfc_id, "Unknown", "unknown_tag"))
    /\ pc' = "poll"
    /\ UNCHANGED <<player, mixer, threads, current_nfc_id, ctl_is_playing,
                   locals, shutting_down, gpio_released, tick>>

\* handle_new_tag with the assignments moved out of the `if play_album(...)`:
\* the tag is taken as the current one although nothing was started.
HandleNewTagNoAlbumSetsTag ==
    /\ pc = "dispatch"
    /\ new_tag_detected
    /\ get_album_info(nfc_id).album # None
    /\ play_album_fails(get_album_info(nfc_id).album)
    /\ current_nfc_id' = nfc_id
    /\ ctl_is_playing' = TRUE
    /\ pc' = "poll"
    /\ UNCHANGED <<player, mixer, threads, log, locals, shutting_down,
                   gpio_released, tick>>

\* handle_new_tag, play_album returns False: nothing is changed or logged.
HandleNewTagNoAlbum ==
    /\ pc = "dispatch"
    /\ new_tag_detected
    /\ get_album_info(nfc_id).album # None
    /\ play_album_fails(get_album_info(nfc_id).album)
    /\ pc' = "poll"
    /\ UNCHANGED <<player, mixer, threads, controller, locals, shutting_down,
                   gpio_released, tick>>

\* handle_new_tag, play_album finds the album's files and calls self.stop().
HandleNewTagPlay ==
    /\ pc = "dispatch"
    /\ new_tag_detected
    /\ get_album_info(nfc_id).album # None
    /\ ~play_album_fails(get_album_info(nfc_id).album)
    /\ album' = get_album_info(nfc_id).album
    /\ shuffle' = get_album_info(nfc_id).shuffle
    /\ mp3_files' = SortedSeq(Library[get_album_info(nfc_id).album])
    /\ caller' = "play_album"
    /\ pc' = "stop_flag"
    /\ UNCHANGED <<player, mixer, threads, controller, nfc_id, shutting_down,
                   gpio_released, tick>>

\* handle_tag_removed up to its call of self.music_player.stop().
HandleTagRemoved ==
    /\ pc = "dispatch"
    /\ tag_removed
    /\ album' = IF get_album_info(current_nfc_id).album = None THEN "Unknown"
                ELSE get_album_info(current_nfc_id).album
    /\ shuffle' = get_album_info(current_nfc_id).shuffle
    /\ caller' = "handle_tag_removed"
    /\ pc' = "stop_flag"
    /\ UNCHANGED <<player, mixer, threads, controller, nfc_id, mp3_files,
                   shutting_down, gpio_released, tick>>

\* handle_new_tag after play_album returned True.
HandleNewTagRecord ==
    /\ pc = "hnt_record"
    /\ current_nfc_id' = nfc_id
    /\ ctl_is_playing' = TRUE
    /\ log' = Append(log, log_entry(nfc_id, album, start_action(shuffle)))
    /\ pc' = "poll"
    /\ album' = None /\ shuffle' = FALSE /\ mp3_files' = <<>> /\ caller' = None
    /\ UNCHANGED <<player, mixer, threads, nfc_id, shutting_down, gpio_released, tick>>

\* handle_tag_removed after stop() returned.
HandleTagRemovedRecord ==
    /\ pc = "htr_record"
    /\ log' = Append(log, log_entry(current_nfc_id, album, stop_action(shuffle)))
    /\ current_nfc_id' = None
    /\ ctl_is_playing' = FALSE
    /\ pc' = "poll"
    /\ album' = None /\ shuffle' = FALSE /\ caller' = None
    /\ UNCHANGED <<player, mixer, threads, nfc_id, mp3_files, shutting_down,
                   gpio_released, tick>>

\* ------------------------------------------------------- MusicPlayer.stop

\* self.is_playing = False
StopFlag ==
    /\ pc = "stop_flag"
    /\ is_playing' = FALSE
    /\ pc' = "stop_shuffled"
    /\ UNCHANGED <<current_playlist, current_index, is_shuffled, playback_thread,
                   mixer, threads, controller, locals, shutting_down,
                   gpio_released, tick>>

\* self.is_shuffled = False
StopShuffled ==
    /\ pc = "stop_shuffled"
    /\ is_shuffled' = FALSE
    /\ pc' = "stop_mixer"
    /\ UNCHANGED <<current_playlist, current_index, is_playing, playback_thread,
                   mixer, threads, controller, locals, shutting_down,
                   gpio_released, tick>>

\* pygame.mixer.music.stop()
StopMixer ==
    /\ pc = "stop_mixer"
    /\ mixer_busy' = FALSE
    /\ pc' = "stop_join"
    /\ UNCHANGED <<player, mixer_track, threads, controller, locals,
                   shutting_down, gpio_released, tick>>

\* There is no thread, or it is not alive, or join() returns because it ended.
StopJoined ==
    /\ pc = "stop_join"
    /\ ~thread_is_alive
    /\ pc' = "stop_clear"
    /\ UNCHANGED <<player, mixer, threads, controller, locals, shutting_down,
                   gpio_released, tick>>

\* join() called without a timeout: it does not return while the thread lives.
StopJoinForever ==
    /\ pc = "stop_join"
    /\ thread_is_alive
    /\ FALSE
    /\ UNCHANGED vars

\* join(timeout=2) returns after 2 s with the thread still alive.
StopJoinTimeout ==
    /\ pc = "stop_join"
    /\ thread_is_alive
    /\ pc' = "stop_clear"
    /\ UNCHANGED <<player, mixer, threads, controller, locals, shutting_down,
                   gpio_released, tick>>

\* self.current_playlist = []
StopClear ==
    /\ pc = "stop_clear"
    /\ current_playlist' = <<>>
    /\ pc' = "stop_reset"
    /\ UNCHANGED <<current_index, is_playing, is_shuffled, playback_thread,
                   mixer, threads, controller, locals, shutting_down,
                   gpio_released, tick>>

\* self.current_index = 0, and stop() returns to its caller.
StopReset ==
    /\ pc = "stop_reset"
    /\ current_index' = 0
    /\ pc' = CASE caller = "play_album" -> "pa_shuffle"
               [] caller = "handle_tag_removed" -> "htr_record"
               [] caller = "run" -> "cleanup"
    /\ UNCHANGED <<current_playlist, is_playing, is_shuffled, playback_thread,
                   mixer, threads, controller, locals, shutting_down,
                   gpio_released, tick>>

\* ----------------------------------- MusicPlayer.play_album, after self.stop()

\* if shuffle: random.shuffle(mp3_files); self.is_shuffled = shuffle
PlayShuffle ==
    /\ pc = "pa_shuffle"
    /\ mp3_files' \in (IF shuffle THEN Shuffles(mp3_files) ELSE {mp3_files})
    /\ is_shuffled' = shuffle
    /\ pc' = "pa_playlist"
    /\ UNCHANGED <<current_playlist, current_index, is_playing, playback_thread,
                   mixer, threads, controller, nfc_id, album, shuffle, caller,
                   shutting_down, gpio_released, tick>>

\* self.current_playlist = mp3_files
PlayPlaylist ==
    /\ pc = "pa_playlist"
    /\ current_playlist' = mp3_files
    /\ pc' = "pa_index"
    /\ UNCHANGED <<current_index, is_playing, is_shuffled, playback_thread,
                   mixer, threads, controller, locals, shutting_down,
                   gpio_released, tick>>

\* self.current_index = 0
PlayIndex ==
    /\ pc = "pa_index"
    /\ current_index' = 0
    /\ pc' = "pa_playing"
    /\ UNCHANGED <<current_playlist, is_playing, is_shuffled, playback_thread,
                   mixer, threads, controller, locals, shutting_down,
                   gpio_released, tick>>

\* self.is_playing = True
PlayPlaying ==
    /\ pc = "pa_playing"
    /\ is_playing' = TRUE
    /\ pc' = "pa_thread"
    /\ UNCHANGED <<current_playlist, current_index, is_shuffled, playback_thread,
                   mixer, threads, controller, locals, shutting_down,
                   gpio_released, tick>>

\* self.playback_thread = threading.Thread(target=self._play_loop); start();
\* return True
PlayThread ==
    /\ pc = "pa_thread"
    /\ playback_thread' = free_thread
    /\ tpc' = [tpc EXCEPT ![free_thread] = "while"]
    /\ pc' = "hnt_record"
    /\ UNCHANGED <<current_playlist, current_index, is_playing, is_shuffled,
                   mixer, current_song, next_index, controller, locals,
                   shutting_down, gpio_released, tick>>

\* --------------------------------------------- MusicPlayer.get_current_song

\* os.path.basename of a track's path: the file name without the album's
\* directory.  The albums number their files alike, so the name tells a track
\* from the others of its album only.
basename(f) ==
    CASE f = 1 -> "01.mp3"
      [] f = 2 -> "02.mp3"
      [] f = 3 -> "03.mp3"
      [] f = 4 -> "01.mp3"
      [] f = 5 -> "02.mp3"

\* get_current_song(): the name of the track at the current position if the
\* session is active and the playlist is not empty, else None; a position
\* outside the playlist raises IndexError.
get_current_song ==
    IF is_playing /\ current_playlist # <<>>
    THEN IF current_index < Len(current_playlist)
         THEN basename(current_playlist[current_index + 1])
         ELSE "IndexError"
    ELSE None

\* -------------------------------------------------- MusicPlayer._play_loop

\* The state a step of thread t leaves alone besides the player and the mixer.
MainUnchanged ==
    UNCHANGED <<controller, pc, locals, shutting_down, gpio_released, tick>>

\* while self.is_playing and self.current_playlist:
LoopWhile(t) ==
    /\ tpc[t] = "while"
    /\ tpc' = [tpc EXCEPT ![t] = IF is_playing /\ current_playlist # <<>>
                                 THEN "fetch" ELSE "dead"]
    /\ UNCHANGED <<player, mixer, current_song, next_index>>
    /\ MainUnchanged

\* current_song = self.current_playlist[self.current_index]; an index out of
\* range raises IndexError.
LoopFetch(t) ==
    /\ tpc[t] = "fetch"
    /\ IF current_index < Len(current_playlist)
       THEN /\ current_song' = [current_song EXCEPT ![t] = current_playlist[current_index + 1]]
            /\ tpc' = [tpc EXCEPT ![t] = "load"]
       ELSE /\ tpc' = [tpc EXCEPT ![t] = "except"]
            /\ UNCHANGED current_song
    /\ UNCHANGED <<player, mixer, next_index>>
    /\ MainUnchanged

\* pygame.mixer.music.load(current_song): the track replaces the loaded one.
LoopLoad(t) ==
    /\ tpc[t] = "load"
    /\ mixer_track' = current_song[t]
    /\ mixer_busy' = FALSE
    /\ current_song' = [current_song EXCEPT ![t] = 0]
    /\ tpc' = [tpc EXCEPT ![t] = "play"]
    /\ UNCHANGED <<player, next_index>>
    /\ MainUnchanged

\* pygame.mixer.music.load(current_song) raises: the file cannot be played.
LoopLoadFault(t) ==
    /\ tpc[t] = "load"
    /\ current_song' = [current_song EXCEPT ![t] = 0]
    /\ tpc' = [tpc EXCEPT ![t] = "except"]
    /\ UNCHANGED <<player, mixer, next_index>>
    /\ MainUnchanged

\* pygame.mixer.music.play()
LoopPlay(t) ==
    /\ tpc[t] = "play"
    /\ mixer_busy' = TRUE
    /\ tpc' = [tpc EXCEPT ![t] = "wait"]
    /\ UNCHANGED <<player, mixer_track, current_song, next_index>>
    /\ MainUnchanged

\* while pygame.mixer.music.get_busy() and self.is_playing: wait(100) ends.
LoopWait(t) ==
    /\ tpc[t] = "wait"
    /\ ~(mixer_busy /\ is_playing)
    /\ tpc' = [tpc EXCEPT ![t] = "check"]
    /\ UNCHANGED <<player, mixer, current_song, next_index>>
    /\ MainUnchanged

\* if self.is_playing:
LoopCheck(t) ==
    /\ tpc[t] = "check"
    /\ tpc' = [tpc EXCEPT ![t] = IF is_playing THEN "advance" ELSE "while"]
    /\ UNCHANGED <<player, mixer, current_song, next_index>>
    /\ MainUnchanged

\* (self.current_index + 1) % len(self.current_playlist) is evaluated; an
\* empty playlist raises ZeroDivisionError.
LoopAdvance(t) ==
    /\ tpc[t] = "advance"
    /\ IF current_playlist = <<>>
       THEN /\ tpc' = [tpc EXCEPT ![t] = "except"]
            /\ UNCHANGED next_index
       ELSE /\ next_index' = [next_index EXCEPT ![t] =
                                 (current_index + 1) % Len(current_playlist)]
            /\ tpc' = [tpc EXCEPT ![t] = "store"]
    /\ UNCHANGED <<player, mixer, current_song>>
    /\ MainUnchanged

\* self.current_index = <the value evaluated>
LoopStore(t) ==
    /\ tpc[t] = "store"
    /\ current_index' = next_index[t]
    /\ next_index' = [next_index EXCEPT ![t] = 0]
    /\ tpc' = [tpc EXCEPT ![t] = "pause"]
    /\ UNCHANGED <<current_playlist, is_playing, is_shuffled, playback_thread,
                   mixer, current_song>>
    /\ MainUnchanged

\* if self.is_playing: pygame.time.wait(500)
LoopPause(t) ==
    /\ tpc[t] = "pause"
    /\ tpc' = [tpc EXCEPT ![t] = "while"]
    /\ UNCHANGED <<player, mixer, current_song, next_index>>
    /\ MainUnchanged

\* except Exception: if self.is_playing and self.current_playlist: ... else: break
LoopExcept(t) ==
    /\ tpc[t] = "except"
    /\ tpc' = [tpc EXCEPT ![t] = IF is_playing /\ current_playlist # <<>>
                                 THEN "err_advance" ELSE "dead"]
    /\ UNCHANGED <<player, mixer, current_song, next_index>>
    /\ MainUnchanged

\* The handler's own (self.current_index + 1) % len(self.current_playlist): a
\* ZeroDivisionError here is caught by nothing and ends the thread.
LoopErrAdvance(t) ==
    /\ tpc[t] = "err_advance"
    /\ IF current_playlist = <<>>
       THEN /\ tpc' = [tpc EXCEPT ![t] = "dead"]
            /\ UNCHANGED next_index
       ELSE /\ next_index' = [next_index EXCEPT ![t] =
                                 (current_index + 1) % Len(current_playlist)]
            /\ tpc' = [tpc EXCEPT ![t] = "err_store"]
    /\ UNCHANGED <<player, mixer, current_song>>
    /\ MainUnchanged

\* The handler's store into self.current_index.
LoopErrStore(t) ==
    /\ tpc[t] = "err_store"
    /\ current_index' = next_index[t]
    /\ next_index' = [next_index EXCEPT ![t] = 0]
    /\ tpc' = [tpc EXCEPT ![t] = "err_wait"]
    /\ UNCHANGED <<current_playlist, is_playing, is_shuffled, playback_thread,
                   mixer, current_song>>
    /\ MainUnchanged

\* pygame.time.wait(1000)
LoopErrWait(t) ==
    /\ tpc[t] = "err_wait"
    /\ tpc' = [tpc EXCEPT ![t] = "while"]
    /\ UNCHANGED <<player, mixer, current_song, next_index>>
    /\ MainUnchanged

\* The mixer reaches the end of the track it is playing.
TrackEnds ==
    /\ mixer_busy
    /\ mixer_busy' = FALSE
    /\ UNCHANGED <<player, mixer_track, threads>>
    /\ MainUnchanged

\* ------------------------------------------------------------- shutting down

\* The handler without its call of stop(): it goes to the cleanup at once.
InterruptNoStop ==
    /\ pc \notin {"construct", "crashed", "cleanup", "exit", "exited"}
    /\ ~shutting_down
    /\ shutting_down' = TRUE
    /\ caller' = "run"
    /\ pc' = "cleanup"
    /\ nfc_id' = None
    /\ album' = None
    /\ shuffle' = FALSE
    /\ mp3_files' = <<>>
    /\ tick_prev' = None
    /\ tick_log' = 0
    /\ reading' = None
    /\ UNCHANGED <<player, mixer, threads, controller, gpio_released>>

\* KeyboardInterrupt reaches the main thread inside run's try block: the
\* frames of the tick are unwound, their locals with them, and the handler
\* calls self.music_player.stop().
Interrupt ==
    /\ pc \notin {"construct", "crashed", "cleanup", "exit", "exited"}
    /\ ~shutting_down
    /\ shutting_down' = TRUE
    /\ caller' = "run"
    /\ pc' = "stop_flag"
    /\ nfc_id' = None
    /\ album' = None
    /\ shuffle' = FALSE
    /\ mp3_files' = <<>>
    /\ tick_prev' = None
    /\ tick_log' = 0
    /\ reading' = None
    /\ UNCHANGED <<player, mixer, threads, controller, gpio_released>>

\* self.nfc_reader.cleanup(): GPIO.cleanup()
Cleanup ==
    /\ pc = "cleanup"
    /\ gpio_released' = TRUE
    /\ pc' = "exit"
    /\ UNCHANGED <<player, mixer, threads, controller, locals, shutting_down, tick>>

\* run() returns and the process ends; the daemon threads end with it.
ProcessExit ==
    /\ pc = "exit"
    /\ pc' = "exited"
    /\ tpc' = [t \in Threads |-> "dead"]
    /\ current_song' = [t \in Threads |-> 0]
    /\ next_index' = [t \in Threads |-> 0]
    /\ mixer_busy' = FALSE
    /\ UNCHANGED <<player, mixer_track, controller, locals, shutting_down,
                   gpio_released, tick>>

\* ------------------------------------------------------------ specification

ThreadStep(t) ==
    \/ LoopWhile(t)
    \/ LoopFetch(t)
    \/ LoopLoad(t)
    \/ LoopLoadFault(t)
    \/ LoopPlay(t)
    \/ LoopWait(t)
    \/ LoopCheck(t)
    \/ LoopAdvance(t)
    \/ LoopStore(t)
    \/ LoopPause(t)
    \/ LoopExcept(t)
    \/ LoopErrAdvance(t)
    \/ LoopErrStore(t)
    \/ LoopErrWait(t)

\* The main thread's steps but for a join that runs into its timeout and for
\* the KeyboardInterrupt.
RunStepJoined ==
    \/ Construct
    \/ ConstructFault
    \/ ReadTag
    \/ RunNoChange
    \/ HandleNewTagUnknown
    \/ HandleNewTagNoAlbum
    \/ HandleNewTagPlay
    \/ HandleTagRemoved
    \/ HandleNewTagRecord
    \/ HandleTagRemovedRecord
    \/ StopFlag
    \/ StopShuffled
    \/ StopMixer
    \/ StopJoined
    \/ StopClear
    \/ StopReset
    \/ PlayShuffle
    \/ PlayPlaylist
    \/ PlayIndex
    \/ PlayPlaying
    \/ PlayThread
    \/ Cleanup
    \/ ProcessExit

\* The steps the main thread takes by itself: everything but the
\* KeyboardInterrupt, which comes from outside.
RunStep ==
    \/ RunStepJoined
    \/ StopJoinTimeout

MainStepJoined ==
    \/ RunStepJoined
    \/ Interrupt

MainStep ==
    \/ RunStep
    \/ Interrupt

Next ==
    \/ MainStep
    \/ \E t \in Threads : ThreadStep(t)
    \/ TrackEnds

Spec == Init /\ [][Next]_vars

\* The behaviours in which every join() returns because the thread ended: no
\* join runs into its timeout of 2 s.
NextJoined ==
    \/ MainStepJoined
    \/ \E t \in Threads : ThreadStep(t)
    \/ TrackEnds

SpecJoined == Init /\ [][NextJoined]_vars

\* The main thread is scheduled: a step it can take by itself it takes in the
\* end.  Nothing is assumed of the playback threads, of the mixer or of when
\* a KeyboardInterrupt comes.
SpecLive == Spec /\ WF_vars(RunStep)

\* The main thread and every playback thread are scheduled, each mixer call
\* returns and a track that plays comes to its end: a step a thread can take
\* it takes in the end.  Nothing is assumed of when a KeyboardInterrupt comes.
SpecFair ==
    /\ Spec
    /\ WF_vars(RunStep)
    /\ \A t \in Threads : WF_vars(ThreadStep(t))
    /\ WF_vars(TrackEnds)

\* ------------------------------------------------- vocabulary of the claims

\* The configuration read directly: the tag is mapped and its album's
\* directory exists with at least one track.
Startable(id) ==
    IF id \notin DOMAIN Mappings THEN FALSE
    ELSE IF Mappings[id].album \notin DOMAIN Library THEN FALSE
    ELSE Library[Mappings[id].album] # {}

\* The shuffle flag the configuration gives a mapped tag.
MappedShuffle(id) == Mappings[id].kind = "dict" /\ Mappings[id].shuffle

\* The tracks of a mapped tag's album.
MappedTracks(id) == Library[Mappings[id].album]

\* The tick just completed read a tag other than the one observed before it.
NewTagTick == pc = "poll" /\ nfc_id # None /\ nfc_id # tick_prev

\* The tick just completed read no tag while a tag was observed before it.
RemovedTick == pc = "poll" /\ nfc_id = None /\ tick_prev # None

\* The main thread is outside stop() and play_album().
OutsidePlayer == pc \in {"poll", "dispatch", "htr_record", "cleanup", "exit"}

\* ---------------------------------------------------------------------- C1
\* C1: at most one playback run-loop thread is alive at any time, also when
\* stop()'s join of 2 s expired before the thread exited.
C1_AtMostOneRunLoop == Cardinality(AliveThreads) <= 1

\* ---------------------------------------------------------------------- C2
\* C2: once stop() has returned and no new play_album has been called, the
\* mixer is not playing a track (no audio plays while is_playing is False).
C2_StopHaltsMixer == (OutsidePlayer /\ ~is_playing) => ~mixer_busy

\* ---------------------------------------------------------------------- C3
\* C3: the run-loop never writes a new position into current_index while
\* is_playing is False, that is after stop() has cleared the flag.
C3_NoAdvanceAfterStop ==
    [][\A t \in Threads :
          (tpc[t] \in {"store", "err_store"} /\ tpc'[t] # tpc[t] /\ is_alive(t)')
              => is_playing]_vars

\* ---------------------------------------------------------------------- C4
\* C4: play_album() followed by stop() leaves the player Idle (is_playing
\* False, playlist empty, position 0, is_shuffled False) with no playback
\* thread alive, wherever the run-loop was when stop() ran.
C4_StartStopIdle ==
    RemovedTick =>
        /\ ~is_playing
        /\ current_playlist = <<>>
        /\ current_index = 0
        /\ ~is_shuffled
        /\ AliveThreads = {}

\* ---------------------------------------------------------------------- C5
\* C5: a tick that reads no tag after a tag was observed records exactly one
\* stopped event (stopped_shuffled when the mapping shuffles) for that tag,
\* clears the observed tag, and the playback thread is no longer alive before
\* the next poll.
C5_RemovalStopsAndJoins ==
    RemovedTick =>
        /\ Len(log) = tick_log + 1
        /\ log[Len(log)] =
              [tag |-> tick_prev, album |-> Mappings[tick_prev].album,
               action |-> IF MappedShuffle(tick_prev) THEN "stopped_shuffled"
                          ELSE "stopped"]
        /\ current_nfc_id = None
        /\ ~thread_is_alive

\* ---------------------------------------------------------------------- C6
\* C6: a tick that reads a tag other than the one observed before, mapped to
\* an album with at least one track, starts a session for that album with the
\* mapping's shuffle flag and records exactly one event for the tag, whose
\* action is started_shuffled if and only if the flag is true.
C6_NewTagStarts ==
    (NewTagTick /\ Startable(nfc_id)) =>
        /\ is_playing
        /\ is_shuffled = MappedShuffle(nfc_id)
        /\ Len(current_playlist) = Cardinality(MappedTracks(nfc_id))
        /\ Range(current_playlist) = MappedTracks(nfc_id)
        /\ thread_is_alive
        /\ current_nfc_id = nfc_id
        /\ Len(log) = tick_log + 1
        /\ log[Len(log)].tag = nfc_id
        /\ log[Len(log)].album = Mappings[nfc_id].album
        /\ log[Len(log)].action \in {"started", "started_shuffled"}
        /\ log[Len(log)].action = "started_shuffled" <=> MappedShuffle(nfc_id)

\* A shuffled album was started directly over the session of another tag.
C6_Witness ==
    /\ NewTagTick
    /\ nfc_id = "222"
    /\ tick_prev = "111"
    /\ log[Len(log)].action = "started_shuffled"

\* ---------------------------------------------------------------------- C7
\* C7: in a session that is not shuffled the run-loop loads the tracks in
\* sorted filename order, one position after the other and wrapping from the
\* last to the first: the playlist is the album's sorted track list, a track
\* about to be loaded is the one at the current position, the track the mixer
\* was given stays the one at the current position until the position is
\* advanced by one, and the run-loop does not end while the session is active.
C7_SortedOrderLoop ==
    (pc = "poll" /\ current_nfc_id # None /\ is_playing /\ ~is_shuffled) =>
        /\ current_playlist = SortedSeq(MappedTracks(current_nfc_id))
        /\ current_index < Len(current_playlist)
        /\ thread_is_alive
        /\ \A t \in AliveThreads :
              /\ tpc[t] = "load" =>
                    current_song[t] = current_playlist[current_index + 1]
              /\ tpc[t] \in {"play", "wait", "check", "advance"} =>
                    mixer_track = current_playlist[current_index + 1]
              /\ tpc[t] \in {"store", "err_store"} =>
                    next_index[t] = (current_index + 1) % Len(current_playlist)

\* ---------------------------------------------------------------------- C8
\* C8: the tick of an unmapped tag calls neither play_album() nor stop(): it
\* leaves the player, the mixer, the run-loops and the observed tag as they
\* were and appends one unknown_tag event for the tag id.
C8_UnknownTagOnlyLogs ==
    [][(pc = "dispatch" /\ pc' # "dispatch" /\ ~shutting_down'
            /\ nfc_id # None /\ nfc_id \notin DOMAIN Mappings)
          => /\ pc' = "poll"
             /\ UNCHANGED <<player, mixer, threads, current_nfc_id, ctl_is_playing>>
             /\ log' = Append(log, [tag |-> nfc_id, album |-> "Unknown",
                                    action |-> "unknown_tag"])]_vars

\* An unmapped tag was read while a session was playing, and logged.
C8_Witness ==
    /\ NewTagTick
    /\ nfc_id = "999"
    /\ is_playing
    /\ thread_is_alive
    /\ log[Len(log)].action = "unknown_tag"

\* ---------------------------------------------------------------------- C9
\* C9 as stated: after a tick that reads a tag other than the one observed
\* before, the observed tag is the tag just read, mapped or not, started or not.
C9_TagUpdatedRegardless == NewTagTick => current_nfc_id = nfc_id

\* C9 as amended: after such a tick the observed tag is the tag just read if
\* the tag is mapped to an album that exists and has a track (play_album
\* returned True), and otherwise it is the tag observed before the tick.
C9_TagUpdatedOnStart ==
    NewTagTick =>
        current_nfc_id = (IF Startable(nfc_id) THEN nfc_id ELSE tick_prev)

\* A tag whose album is missing was read during the session of another tag,
\* and the observed tag stayed that of the session.
C9_Witness ==
    /\ NewTagTick
    /\ nfc_id = "444"
    /\ tick_prev = "111"
    /\ current_nfc_id = "111"

\* --------------------------------------------------------------------- C10
\* C10 as stated: after a tick that reads a tag other than that of the active
\* session, mapped or not, that session is no longer playing.
C10_DifferentTagDestroys ==
    (NewTagTick /\ tick_prev # None) =>
        ~(is_playing /\ current_nfc_id = tick_prev)

\* C10 as amended: after such a tick the player plays the album of the new tag
\* if that tag is mapped to an album that exists and has a track; if the tag
\* is unmapped or its album is missing or empty, the session of the tag
\* observed before is still active, with its playlist and its run-loop.
C10_DifferentTagReplaces ==
    (NewTagTick /\ tick_prev # None) =>
        IF Startable(nfc_id)
        THEN /\ is_playing
             /\ current_nfc_id = nfc_id
             /\ Range(current_playlist) = MappedTracks(nfc_id)
        ELSE /\ is_playing
             /\ current_nfc_id = tick_prev
             /\ Range(current_playlist) = MappedTracks(tick_prev)
             /\ thread_is_alive

\* A tag mapped to an empty album was read during a session, which plays on.
C10_Witness ==
    /\ NewTagTick
    /\ nfc_id = "333"
    /\ tick_prev = "222"
    /\ is_playing
    /\ Range(current_playlist) = MappedTracks("222")

\* --------------------------------------------------------------------- C11
\* C11: the tick that reads the tag observed before it takes no action: it
\* calls neither play_album() nor stop(), records no event, and leaves the
\* player, the mixer, the run-loops, the observed tag and the controller's
\* is_playing flag as they were (only a run-loop may move the position
\* meanwhile, in steps of its own).
C11_SameTagNoAction ==
    [][(pc = "dispatch" /\ pc' # "dispatch" /\ ~shutting_down'
            /\ nfc_id # None /\ nfc_id = current_nfc_id)
          => /\ pc' = "poll"
             /\ UNCHANGED <<player, mixer, threads, controller>>]_vars

\* The tag of the playing session was read again, and nothing was recorded.
C11_Witness ==
    /\ pc = "poll"
    /\ nfc_id = "111"
    /\ tick_prev = "111"
    /\ current_nfc_id = "111"
    /\ is_playing
    /\ thread_is_alive
    /\ Len(log) = tick_log

\* --------------------------------------------------------------------- C12
\* C12: when play_album() returns success, the playlist it installed is a
\* permutation of the album's sorted track list (same length, same tracks,
\* none twice), it is that sorted list itself when shuffle is false, the
\* position is 0 and the session is active.
C12_PlaylistPermutation ==
    [][(pc = "pa_thread" /\ pc' = "hnt_record")
          => LET sorted == SortedSeq(Library[album])
             IN /\ Len(current_playlist') = Len(sorted)
                /\ Range(current_playlist') = Range(sorted)
                /\ Cardinality(Range(current_playlist')) = Len(current_playlist')
                /\ ~shuffle => current_playlist' = sorted
                /\ current_index' = 0
                /\ is_playing']_vars

\* --------------------------------------------------------------------- C13
\* C13 as stated: after the tick of a new tag whose album directory is absent
\* or holds no track, no event was recorded and no session is playing.
C13_FailedStartIdle ==
    (NewTagTick /\ nfc_id \in DOMAIN Mappings /\ ~Startable(nfc_id)) =>
        /\ Len(log) = tick_log
        /\ ~is_playing

\* C13 as amended: the tick of a new tag whose album directory is absent or
\* holds no track launches no run-loop and records no event, and it leaves
\* the player as it was: idle if it was idle, and playing the session of the
\* tag observed before if there was one.
C13_FailedStartNoChange ==
    [][(pc = "dispatch" /\ pc' # "dispatch" /\ ~shutting_down'
            /\ nfc_id \in DOMAIN Mappings /\ nfc_id # current_nfc_id
            /\ ~Startable(nfc_id))
          => /\ pc' = "poll"
             /\ UNCHANGED <<player, mixer, threads, controller>>]_vars

\* A tag mapped to an empty album was read during the session of tag 111:
\* nothing was recorded and the session plays on.
C13_Witness ==
    /\ NewTagTick
    /\ nfc_id = "333"
    /\ tick_prev = "111"
    /\ Len(log) = tick_log
    /\ is_playing
    /\ thread_is_alive

\* --------------------------------------------------------------------- C14
\* C14: a fault in the run-loop never ends an active session: the handler of
\* a run-loop that finds the session active goes on to advance, its store
\* moves the position from p to (p + 1) mod n, once, the session is active
\* after it, and the run-loop then waits before it loops to the next load.
C14_FaultAdvancesOnce ==
    [][\A t \in Threads :
          /\ (tpc[t] = "except" /\ tpc'[t] # "except" /\ pc' # "exited"
                  /\ is_playing /\ current_playlist # <<>>)
                => tpc'[t] = "err_advance"
          /\ (tpc[t] = "err_store" /\ tpc'[t] # "err_store" /\ pc' # "exited"
                  /\ is_playing)
                => /\ current_index' = (current_index + 1) % Len(current_playlist)
                   /\ is_playing'
                   /\ tpc'[t] = "err_wait"]_vars

\* --------------------------------------------------------------------- C15
\* The read of the last tick raised in read_no_block().
ReadFaulted == reading \in {"AUTH ERROR", "IO ERROR"}

\* The tick in hand, or just completed, read the tag whose session the tick
\* before it stopped.
RestartTick ==
    /\ nfc_id # None
    /\ tick_prev = None
    /\ tick_log > 0
    /\ log[tick_log].tag = nfc_id
    /\ log[tick_log].action \in {"stopped", "stopped_shuffled"}

\* C15: a read that raises is returned as no tag; one such absence during a
\* session counts as a removal (the session is stopped and one stopped event
\* is recorded on that tick); and if the same tag is read on the next tick a
\* new session is started from position 0 with a new started event.
C15_ReadFaultIsRemoval ==
    /\ [](ReadFaulted => nfc_id = None)
    /\ []((pc = "poll" /\ ReadFaulted /\ tick_prev # None) =>
            /\ ~is_playing
            /\ current_nfc_id = None
            /\ Len(log) = tick_log + 1
            /\ log[Len(log)].tag = tick_prev
            /\ log[Len(log)].action \in {"stopped", "stopped_shuffled"})
    /\ [][(pc = "pa_thread" /\ pc' = "hnt_record" /\ RestartTick) =>
            /\ current_index' = 0
            /\ is_playing']_vars
    /\ []((pc = "poll" /\ RestartTick) =>
            /\ is_playing
            /\ thread_is_alive
            /\ current_nfc_id = nfc_id
            /\ Len(log) = tick_log + 1
            /\ log[Len(log)].tag = nfc_id
            /\ log[Len(log)].action \in {"started", "started_shuffled"})

\* --------------------------------------------------------------------- C16
\* The main thread is in the poll loop, past the read of a tick.
InTick == pc \notin {"construct", "crashed", "poll"}

\* C16: no runtime error ends the poll loop and the playback thread never
\* blocks it for good: a tick, once begun, is completed and the main thread is
\* back at the top of the loop (unless a KeyboardInterrupt comes first),
\* whatever the read, the tag, the album or the run-loops do and also when
\* stop()'s join runs into its timeout; and the main thread leaves the loop
\* only through a KeyboardInterrupt.
C16_PollLoopGoesOn ==
    /\ [](pc \in {"cleanup", "exit", "exited"} => shutting_down)
    /\ [](InTick /\ ~shutting_down => <>(pc = "poll" \/ shutting_down))

\* A tick whose read raised and whose stop() timed out in its join is
\* completed, the thread still alive.
C16_Witness ==
    /\ RemovedTick
    /\ ReadFaulted
    /\ thread_is_alive

\* --------------------------------------------------------------------- C17
\* C17: on a KeyboardInterrupt in the poll loop the controller first stops
\* the session (stop() has run to its end, is_playing is False) and then
\* releases the hardware handle, both before the process exits.
C17_StopThenCleanup ==
    /\ (shutting_down /\ pc = "cleanup") =>
          /\ ~is_playing
          /\ current_playlist = <<>>
          /\ ~gpio_released
    /\ gpio_released => (shutting_down /\ ~is_playing /\ pc \in {"exit", "exited"})
    /\ (shutting_down /\ pc = "exited") => (gpio_released /\ ~is_playing)

\* The process has exited after an interrupt that came while tag 222 was
\* playing.
C17_Witness ==
    /\ pc = "exited"
    /\ shutting_down
    /\ gpio_released
    /\ current_nfc_id = "222"
    /\ ctl_is_playing

\* --------------------------------------------------------------------- C18
\* C18: once the hardware handle is acquired it has been released whenever
\* the process has ended, also when it ends through a fault.
C18_CleanupOnEveryExit == pc \in {"exited", "crashed"} => gpio_released

\* --------------------------------------------------------------------- C19
\* The new-format mapping the claim compares a tag's mapping with: the same
\* album, with the shuffle key written out, false for an old-format string
\* and for a dict that has no shuffle key.
FullMapping(id) ==
    [kind |-> "dict", album |-> Mappings[id].album,
     shuffle |-> (Mappings[id].kind = "dict" /\ Mappings[id].shuffle)]

\* The tag's mapping is an old-format string or a dict without shuffle key.
NoShuffleKey(id) ==
    IF id \in DOMAIN Mappings THEN Mappings[id].kind # "dict" ELSE FALSE

\* C19: a mapping in the old format (a bare album string), and a dict without
\* the shuffle key, behave as the dict {album, shuffle: false}: for every tag
\* the controller looks up, get_album_info gives what it gives for that dict;
\* a session of such a tag is not shuffled and plays the sorted list; and the
\* events of such a tag are started and stopped, never the shuffled ones.
C19_LegacyIsUnshuffled ==
    /\ \A id \in {nfc_id, current_nfc_id} \cap DOMAIN Mappings :
          get_album_info(id) = mapping_info(FullMapping(id))
    /\ (NewTagTick /\ Startable(nfc_id) /\ NoShuffleKey(nfc_id)) =>
          /\ is_playing
          /\ ~is_shuffled
          /\ current_playlist = SortedSeq(MappedTracks(nfc_id))
    /\ \A i \in 1..Len(log) :
          NoShuffleKey(log[i].tag) =>
              /\ log[i].action \in {"started", "stopped"}
              /\ log[i].album = Mappings[log[i].tag].album

\* The session of the old-format tag 111 was started and stopped again.
C19_Witness ==
    /\ RemovedTick
    /\ tick_prev = "111"
    /\ Len(log) = 2
    /\ log[1].action = "started"
    /\ log[2].action = "stopped"

\* --------------------------------------------------------------------- C20
\* The name of the track loaded in the mixer, None if none was loaded yet.
LoadedSong == IF mixer_track = 0 THEN None ELSE basename(mixer_track)

\* C20: get_current_song() returns None exactly when the player is idle, and
\* whenever the session is active it returns the track loaded in the mixer:
\* also before the first load of a session, in the pause after the position
\* has advanced, and after a load that failed.
C20_CurrentSongIsLoaded ==
    /\ get_current_song = None <=> ~is_playing
    /\ is_playing => get_current_song = LoadedSong

\* --------------------------------------------------------------------- C21
\* C21: once stop() has set is_playing to False, a run-loop thread that is
\* alive exits in the end, the threads being scheduled fairly and the mixer
\* calls returning.
C21_RunLoopExitsAfterStop ==
    \A t \in Threads : (is_alive(t) /\ ~is_playing) ~> ~is_alive(t)

\* --------------------------------------------------------------------- C22
\* C22: when the tag of an active session is replaced directly by another
\* mapped tag whose album has tracks, the tick joins the old run-loop before
\* it launches the new one, launches it at position 0 on the new album's
\* playlist, makes the new tag the observed tag and records exactly one
\* event, the start event of the new tag (no stopped event for the old one).
C22_DirectReplacement ==
    /\ [][(pc = "pa_thread" /\ pc' = "hnt_record" /\ tick_prev # None) =>
            /\ AliveThreads = {}
            /\ current_index' = 0
            /\ Range(current_playlist') = MappedTracks(nfc_id)
            /\ Len(current_playlist') = Cardinality(MappedTracks(nfc_id))]_vars
    /\ []((NewTagTick /\ tick_prev # None /\ Startable(nfc_id)) =>
            /\ is_playing
            /\ thread_is_alive
            /\ current_nfc_id = nfc_id
            /\ Len(log) = tick_log + 1
            /\ log[Len(log)] =
                  [tag |-> nfc_id, album |-> Mappings[nfc_id].album,
                   action |-> IF MappedShuffle(nfc_id) THEN "started_shuffled"
                              ELSE "started"])

\* --------------------------------------------------------------------- C23
IsStart(e) == e.action \in {"started", "started_shuffled"}

IsStop(e) == e.action \in {"stopped", "stopped_shuffled"}

\* C23: in the log every stop event comes after a start event of the same
\* tag and the same shuffle variant with no other stop event between the
\* two; so a stop event is only recorded for a mapped tag whose album
\* started, and no prefix of the log has more stop than start events.
C23_StopsFollowStarts ==
    /\ \A j \in 1..Len(log) :
          IsStop(log[j]) =>
              /\ Startable(log[j].tag)
              /\ \E i \in 1..(j - 1) :
                    /\ IsStart(log[i])
                    /\ log[i].tag = log[j].tag
                    /\ log[i].album = log[j].album
                    /\ (log[i].action = "started_shuffled")
                          <=> (log[j].action = "stopped_shuffled")
                    /\ \A k \in (i + 1)..(j - 1) : ~IsStop(log[k])
    /\ \A n \in 1..Len(log) :
          Cardinality({j \in 1..n : IsStop(log[j])})
              <= Cardinality({i \in 1..n : IsStart(log[i])})

\* A shuffled session was started, an unmapped tag was shown during it, and
\* the session was stopped.
C23_Witness ==
    /\ Len(log) = 3
    /\ log[1] = [tag |-> "222", album |-> "Rock", action |-> "started_shuffled"]
    /\ log[2].action = "unknown_tag"
    /\ log[3] = [tag |-> "222", album |-> "Rock", action |-> "stopped_shuffled"]

\* --------------------------------------------------------------------- C24
\* C24: at every boundary between two ticks before shutdown the controller
\* and the player agree: the current tag is set if and only if the
\* controller's is_playing is true if and only if the player's is_playing is
\* true; and a current tag that is set is mapped to an album that was
\* started, the one the player holds.
C24_ControllerAgreesWithPlayer ==
    (pc = "poll" /\ ~shutting_down) =>
        /\ (current_nfc_id # None) <=> ctl_is_playing
        /\ ctl_is_playing <=> is_playing
        /\ current_nfc_id # None =>
              /\ Startable(current_nfc_id)
              /\ Range(current_playlist) = MappedTracks(current_nfc_id)
              /\ \E i \in 1..Len(log) :
                    /\ IsStart(log[i])
                    /\ log[i].tag = current_nfc_id

\* Between two ticks, with tag 111 the current tag of a playing session whose
\* start was followed by the reading of a tag with a missing album.
C24_Witness ==
    /\ pc = "poll"
    /\ ~shutting_down
    /\ current_nfc_id = "111"
    /\ ctl_is_playing
    /\ is_playing
    /\ nfc_id = "444"

\* --------------------------------------------------------------------- C25
\* C25: whenever a run-loop indexes the playlist the position is a valid
\* index of the current playlist; a run-loop never takes the modulus by an
\* emptied playlist; and the position a run-loop is about to store is a
\* valid index of the playlist it is stored for.
C25_PositionInRange ==
    \A t \in AliveThreads :
        /\ tpc[t] = "fetch" => current_index < Len(current_playlist)
        /\ tpc[t] \in {"advance", "err_advance"} => current_playlist # <<>>
        /\ tpc[t] \in {"store", "err_store"} =>
              next_index[t] < Len(current_playlist)

=============================================================================
